---- MODULE Spec2Model ----
(***************************************************************************)
(* Multivendor Ecommerce API (src/main.py): the request handlers over the  *)
(* two document collections "vendor" and "product".  Every handler is      *)
(* modelled store operation by store operation, so that requests of         *)
(* different clients interleave the way the threadpool of the web server   *)
(* interleaves them.                                                        *)
(*                                                                         *)
(* Values.  A Python value that the code inspects by type is a record      *)
(* [t, v]: t is the Python type ("none", "str", "oid", "num", "bool") and  *)
(* v a sequence (the characters of a string, the digits of an ObjectId).   *)
(* Prices are in cents and ratings in tenths, so that they are integers.   *)
(* A document (a Python dict) is a function from its keys to its values.   *)
(***************************************************************************)
EXTENDS Integers, Sequences, FiniteSets, TLC

VARIABLES
  db,       \* TRUE: the store handle is configured; FALSE: db is None
  env,      \* the environment variables that are set
  vendor,   \* db["vendor"]: the documents, in natural (insertion) order
  product,  \* db["product"]
  nextId,   \* the next ObjectId the driver hands out
  req,      \* per client: the request in flight, its locals, its response
  ser       \* a document, and the results of serialising it again and again

vars == <<db, env, vendor, product, nextId, req, ser>>

-----------------------------------------------------------------------------
(* Bounds of the model. *)

\* Number of documents the vendor collection may hold before the first request.
MaxInitVendors == 2
\* Number of documents the product collection may hold before the first request.
MaxInitProducts == 1
\* Largest page number a client asks for.
MaxPage == 2
\* Clients ask for limit in 1..MaxLimit, or leave the default.
MaxLimit == 2
\* Length of the longest search text q a client sends.
MaxQLen == 2
\* Clients that send requests at the same time.
NClients == 2
\* Identifiers a document handed to serialize_doc may refer to.
MaxSerId == 2

\* Default of limit in list_products.
ProductsDefaultLimit == 12
\* Default of limit in list_vendors.
VendorsDefaultLimit == 20
\* Number of collection names test_database reports at most.
MaxCollections == 10

-----------------------------------------------------------------------------
(* Python values *)

None == [t |-> "none", v |-> <<>>]
Str(s) == [t |-> "str", v |-> s]
Num(n) == [t |-> "num", n |-> n]
Bool(b) == [t |-> "bool", b |-> b]
\* bson.ObjectId: an opaque identifier, here the n-th one the driver generated.
ObjectId(n) == [t |-> "oid", v |-> <<ToString(n)>>]

isinstance_ObjectId(x) == x.t = "oid"
isinstance_str(x) == x.t = "str"
\* str(): the digits of an ObjectId as a string, a string itself, "None".
str(x) ==
  CASE x.t = "oid" -> Str(x.v)
    [] x.t = "str" -> x
    [] x.t = "none" -> Str(<<"N", "o", "n", "e">>)
\* Python truthiness of an Optional[str]: None and "" are falsy.
Truthy(x) == x # None /\ x.v # <<>>

\* dict helpers
Has(d, k) == k \in DOMAIN d
Get(d, k) == IF Has(d, k) THEN d[k] ELSE None
Put(d, k, x) == [j \in DOMAIN d \cup {k} |-> IF j = k THEN x ELSE d[j]]
Del(d, k) == [j \in DOMAIN d \ {k} |-> d[j]]
EmptyDict == [j \in {} |-> None]

-----------------------------------------------------------------------------
(* serialize_doc *)

\* serialize_doc without the isinstance guard on _id:
\* doc["id"] = str(doc.pop("_id", None)).
serialize_doc_unguarded(doc) ==
  IF doc = None \/ doc = EmptyDict THEN doc
  ELSE LET d1 == Del(Put(doc, "id", str(Get(doc, "_id"))), "_id")
       IN  IF Has(d1, "vendor_id") /\ isinstance_ObjectId(d1["vendor_id"])
           THEN Put(d1, "vendor_id", str(d1["vendor_id"]))
           ELSE d1

serialize_doc(doc) ==
  IF doc = None \/ doc = EmptyDict THEN doc
  ELSE LET d1 == IF isinstance_ObjectId(Get(doc, "_id"))
                 THEN Del(Put(doc, "id", str(doc["_id"])), "_id")
                 ELSE doc
       IN  IF Has(d1, "vendor_id") /\ isinstance_ObjectId(d1["vendor_id"])
           THEN Put(d1, "vendor_id", str(d1["vendor_id"]))
           ELSE d1

-----------------------------------------------------------------------------
(* Characters and strings: what the store's $regex and Python's sorted see. *)

UpperChars == <<"A","B","C","D","E","F","G","H","I","J","K","L","M","N","O","P","Q","R","S","T","U","V","W","X","Y","Z">>
LowerChars == <<"a","b","c","d","e","f","g","h","i","j","k","l","m","n","o","p","q","r","s","t","u","v","w","x","y","z">>
\* The characters of the model in code point order.
Ascii == <<" ",",","-",".","0","1","2","3","4","5","6","7","8","9","A","B","C","D","E","F","G","H","I","J","K","L","M","N","O","P","Q","R","S","T","U","V","W","X","Y","Z","a","b","c","d","e","f","g","h","i","j","k","l","m","n","o","p","q","r","s","t","u","v","w","x","y","z">>

Lower(ch) ==
  IF \E i \in 1..Len(UpperChars) : UpperChars[i] = ch
  THEN LowerChars[CHOOSE i \in 1..Len(UpperChars) : UpperChars[i] = ch]
  ELSE ch

Code(ch) == CHOOSE i \in 1..Len(Ascii) : Ascii[i] = ch

\* s < t in Python's str order (code points, then length).
StrLess(s, t) ==
  \E i \in 1..(Len(t)) :
     /\ \A j \in 1..(i - 1) : j <= Len(s) /\ s[j] = t[j]
     /\ \/ i = Len(s) + 1
        \/ i <= Len(s) /\ Code(s[i]) < Code(t[i])

\* One pattern character against one text character, under option "i".
\* "." is the regular expression that matches any character.
CharMatch(pc, tc) == pc = "." \/ Lower(pc) = Lower(tc)

\* {field: {"$regex": pat, "$options": "i"}}: the pattern is searched for
\* anywhere in the field; a field that holds no string does not match.
RegexSearch(pat, x) ==
  /\ isinstance_str(x)
  /\ \E i \in 0..(Len(x.v) - Len(pat)) :
        \A j \in 1..Len(pat) : CharMatch(pat[j], x.v[i + j])

\* q is a substring of the field, letter case ignored.
SubstringCI(pat, x) ==
  /\ isinstance_str(x)
  /\ \E i \in 0..(Len(x.v) - Len(pat)) :
        \A j \in 1..Len(pat) : Lower(pat[j]) = Lower(x.v[i + j])

-----------------------------------------------------------------------------
(* The demo data of seed_demo *)

SeedVendors ==
  <<
     [name |-> "Urban Outfitters", bio |-> "Trendy apparel and accessories.", verified |-> Bool(TRUE), rating |-> 46,
      logo |-> "https://i.pravatar.cc/100?img=12", categories |-> <<"Fashion", "Accessories">>, location |-> "NY, USA"],
     [name |-> "GreenLeaf Organics", bio |-> "Organic groceries and produce.", verified |-> Bool(TRUE), rating |-> 48,
      logo |-> "https://i.pravatar.cc/100?img=32", categories |-> <<"Groceries">>, location |-> "CA, USA"],
     [name |-> "TechNest", bio |-> "Latest gadgets and electronics.", verified |-> Bool(TRUE), rating |-> 47,
      logo |-> "https://i.pravatar.cc/100?img=5", categories |-> <<"Electronics">>, location |-> "Remote"],
     [name |-> "Crafted Co.", bio |-> "Handmade goods from local artisans.", verified |-> Bool(TRUE), rating |-> 49,
      logo |-> "https://i.pravatar.cc/100?img=20", categories |-> <<"Home", "Gifts">>, location |-> "TX, USA"]
  >>

SeedProducts(v_ids) ==
  <<
     [title |-> Str(<<"V","i","n","t","a","g","e"," ","D","e","n","i","m"," ","J","a","c","k","e","t">>),
      description |-> Str(<<"C","l","a","s","s","i","c"," ","f","i","t",","," ","d","u","r","a","b","l","e"," ","f","a","b","r","i","c",".">>),
      price |-> Num(7999), category |-> Str(<<"F","a","s","h","i","o","n">>), in_stock |-> Bool(TRUE),
      images |-> <<"https://images.unsplash.com/photo-1516826957135-700dedea698c?w=800">>,
      vendor_id |-> IF Len(v_ids) > 0 THEN v_ids[1] ELSE None],
     [title |-> Str(<<"O","r","g","a","n","i","c"," ","A","v","o","c","a","d","o"," ","P","a","c","k">>),
      description |-> Str(<<"F","r","e","s","h"," ","a","n","d"," ","c","r","e","a","m","y",".">>),
      price |-> Num(999), category |-> Str(<<"G","r","o","c","e","r","i","e","s">>), in_stock |-> Bool(TRUE),
      images |-> <<"https://images.unsplash.com/photo-1550258987-190a2d41a8ba?w=800">>,
      vendor_id |-> IF Len(v_ids) > 1 THEN v_ids[2] ELSE None],
     [title |-> Str(<<"W","i","r","e","l","e","s","s"," ","N","o","i","s","e","-","C","a","n","c","e","l","i","n","g"," ","H","e","a","d","p","h","o","n","e","s">>),
      description |-> Str(<<"I","m","m","e","r","s","i","v","e"," ","s","o","u","n","d",".">>),
      price |-> Num(19999), category |-> Str(<<"E","l","e","c","t","r","o","n","i","c","s">>), in_stock |-> Bool(TRUE),
      images |-> <<"https://images.unsplash.com/photo-1518443871564-5acaed0c972e?w=800">>,
      vendor_id |-> IF Len(v_ids) > 2 THEN v_ids[3] ELSE None],
     [title |-> Str(<<"H","a","n","d","m","a","d","e"," ","C","e","r","a","m","i","c"," ","M","u","g">>),
      description |-> Str(<<"P","e","r","f","e","c","t"," ","f","o","r"," ","y","o","u","r"," ","m","o","r","n","i","n","g"," ","c","o","f","f","e","e",".">>),
      price |-> Num(2450), category |-> Str(<<"H","o","m","e">>), in_stock |-> Bool(TRUE),
      images |-> <<"https://images.unsplash.com/photo-1516826957135-700dedea698c?w=800">>,
      vendor_id |-> IF Len(v_ids) > 3 THEN v_ids[4] ELSE None],
     [title |-> Str(<<"S","i","l","k"," ","S","c","a","r","f">>),
      description |-> Str(<<"S","o","f","t"," ","a","n","d"," ","e","l","e","g","a","n","t",".">>),
      price |-> Num(3400), category |-> Str(<<"A","c","c","e","s","s","o","r","i","e","s">>), in_stock |-> Bool(TRUE),
      images |-> <<"https://images.unsplash.com/photo-1520975916090-3105956dac38?w=800">>,
      vendor_id |-> IF Len(v_ids) > 0 THEN v_ids[1] ELSE None]
  >>

-----------------------------------------------------------------------------
(* The document store: what the driver's operations do to a collection. *)

\* One condition of "$or": {field: {"$regex": pattern, "$options": "i"}}.
RegexCond(field, pattern) == [field |-> field, regex |-> pattern, options |-> "i"]

MatchKey(doc, k, want) ==
  CASE k = "$or" ->
         \E i \in 1..Len(want) :
            Has(doc, want[i].field) /\ RegexSearch(want[i].regex, doc[want[i].field])
    [] k = "price" ->
         /\ Has(doc, "price") /\ doc["price"].t = "num"
         /\ Has(want, "$gte") => doc["price"].n >= want["$gte"].n
         /\ Has(want, "$lte") => doc["price"].n <= want["$lte"].n
    [] OTHER -> Has(doc, k) /\ doc[k] = want

\* A document matches a filter when it matches every key of it.
Matches(doc, filter_q) == \A k \in DOMAIN filter_q : MatchKey(doc, k, filter_q[k])

RECURSIVE Select(_, _)
Select(coll, filter_q) ==
  IF coll = <<>> THEN <<>>
  ELSE IF Matches(Head(coll), filter_q)
       THEN <<Head(coll)>> \o Select(Tail(coll), filter_q)
       ELSE Select(Tail(coll), filter_q)

count_documents(coll, filter_q) == Len(Select(coll, filter_q))

\* find(filter).skip(skip).limit(limit) with the limit ignored.
find_unlimited(coll, filter_q, skip, limit) ==
  LET m == Select(coll, filter_q)
  IN  SubSeq(m, skip + 1, Len(m))

\* find(filter).skip(skip).limit(limit), limit >= 1, in natural order.
find(coll, filter_q, skip, limit) ==
  LET m == Select(coll, filter_q)
      last == IF skip + limit < Len(m) THEN skip + limit ELSE Len(m)
  IN  SubSeq(m, skip + 1, last)

\* insert_many that inserts only into an empty collection.
insert_many_if_empty(coll, docs, first) ==
  IF coll # <<>> THEN coll
  ELSE [i \in 1..Len(docs) |-> Put(docs[i], "_id", ObjectId(first + i - 1))]

\* insert_many that replaces the collection's documents.
insert_many_replace(coll, docs, first) ==
  [i \in 1..Len(docs) |-> Put(docs[i], "_id", ObjectId(first + i - 1))]

\* insert_many: every document gets a fresh _id and is appended.
insert_many(coll, docs, first) ==
  coll \o [i \in 1..Len(docs) |-> Put(docs[i], "_id", ObjectId(first + i - 1))]

RECURSIVE SetOfSeq(_)
SetOfSeq(s) == IF s = <<>> THEN {} ELSE {Head(s)} \cup SetOfSeq(Tail(s))

\* distinct(field): the values the field takes in the collection.
distinct(coll, field) == { d[field] : d \in { e \in SetOfSeq(coll) : Has(e, field) } }

\* sorted(): the strings of S in Python's order.
RECURSIVE sorted(_)
sorted(S) ==
  IF S = {} THEN <<>>
  ELSE LET m == CHOOSE x \in S : \A y \in S \ {x} : StrLess(x.v, y.v)
       IN  <<m>> \o sorted(S \ {m})

\* list_collection_names(): a collection exists once it holds a document.
list_collection_names ==
  (IF vendor # <<>> THEN <<"vendor">> ELSE <<>>) \o
  (IF product # <<>> THEN <<"product">> ELSE <<>>)

-----------------------------------------------------------------------------
(* Query building and pagination *)

\* The filter of list_products.
BuildProductFilter(a) ==
  LET f1 == IF Truthy(a.category) THEN Put(EmptyDict, "category", a.category) ELSE EmptyDict
      f2 == IF a.in_stock # None THEN Put(f1, "in_stock", a.in_stock) ELSE f1
      f3 == IF Truthy(a.q)
            THEN Put(f2, "$or", <<RegexCond("title", a.q.v), RegexCond("description", a.q.v)>>)
            ELSE f2
      p1 == IF a.min_price # None THEN Put(EmptyDict, "$gte", a.min_price) ELSE EmptyDict
      p2 == IF a.max_price # None THEN Put(p1, "$lte", a.max_price) ELSE p1
  IN  IF a.min_price # None \/ a.max_price # None THEN Put(f3, "price", p2) ELSE f3

\* A vendor filter that is built only for verified = false.
BuildVendorFilterFalsy(a) ==
  IF ~a.verified.b THEN Put(EmptyDict, "verified", a.verified) ELSE EmptyDict

\* The filter of list_vendors; verified is a bool, never None.
BuildVendorFilter(a) ==
  IF a.verified # None THEN Put(EmptyDict, "verified", a.verified) ELSE EmptyDict

SkipFromZero(page, limit) == page * limit

Skip(page, limit) == (page - 1) * limit

PagesFloor(total, limit) == IF limit # 0 THEN total \div limit ELSE 1

\* pages = (total + limit - 1) // limit if limit else 1
Pages(total, limit) == IF limit # 0 THEN (total + limit - 1) \div limit ELSE 1

EnvelopeFirstPage(page) == [items |-> <<>>, page |-> 1, pages |-> 0, total |-> 0]

\* What the list endpoints return when db is None.
EmptyEnvelope(page) == [items |-> <<>>, page |-> page, pages |-> 0, total |-> 0]

Envelope(items, page, pages, total) ==
  [items |-> items, page |-> page, pages |-> pages, total |-> total]

SeedAlways(count) == TRUE

\* seed_demo inserts into a collection it counted empty.
SeedWanted(count) == count = 0

serialize_all(docs) == [i \in 1..Len(docs) |-> serialize_doc(docs[i])]

-----------------------------------------------------------------------------
(* Requests *)

Clients == 1..NClients

\* No request in flight.
Idle ==
  [op |-> "none", pc |-> "idle", query |-> EmptyDict, args |-> EmptyDict,
   loc |-> EmptyDict, resp |-> None, store_ops |-> 0]

\* A handler entered with its parameters bound, before its first statement.
Call(op, query, args) ==
  [op |-> op, pc |-> "run", query |-> query, args |-> args,
   loc |-> EmptyDict, resp |-> None, store_ops |-> 0]

\* The handler returns resp.
Done(r, resp) == [r EXCEPT !.pc = "done", !.resp = resp]

\* One more store operation, a local assigned, the next statement.
Op(r, pc, name, value) ==
  [r EXCEPT !.pc = pc, !.loc = Put(@, name, value), !.store_ops = @ + 1]

\* Query(default): the default when the request does not give the parameter.
Default(x, d) == IF x = None THEN d ELSE x

\* The parameters of list_products as the framework binds them.
ProductArgs(q) ==
  [page |-> Default(q.page, Num(1)).n, limit |-> Default(q.limit, Num(ProductsDefaultLimit)).n,
   category |-> q.category, q |-> q.q, min_price |-> q.min_price,
   max_price |-> q.max_price, in_stock |-> q.in_stock]

\* The parameters of list_vendors as the framework binds them.
VendorArgs(q) ==
  [verified |-> Default(q.verified, Bool(TRUE)),
   page |-> Default(q.page, Num(1)).n, limit |-> Default(q.limit, Num(VendorsDefaultLimit)).n]

read_root(c) ==
  /\ req[c].pc = "idle"
  /\ req' = [req EXCEPT ![c] =
       Done(Call("read_root", EmptyDict, EmptyDict),
            [message |-> "Multivendor Ecommerce API running"])]
  /\ UNCHANGED <<db, env, vendor, product, nextId, ser>>

test_database(c) ==
  /\ req[c].pc = "idle"
  /\ LET r == Call("test_database", EmptyDict, EmptyDict)
         names == list_collection_names
         resp ==
           [backend |-> "Running",
            database |-> IF db THEN "Connected & Working"
                         ELSE "Available but not initialized",
            database_url |-> IF "DATABASE_URL" \in env THEN "Set" ELSE "Not Set",
            database_name |-> IF "DATABASE_NAME" \in env THEN "Set" ELSE "Not Set",
            connection_status |-> IF db THEN "Connected" ELSE "Not Connected",
            collections |-> IF db
                            THEN SubSeq(names, 1, IF Len(names) < MaxCollections
                                                  THEN Len(names) ELSE MaxCollections)
                            ELSE <<>>]
     IN  req' = [req EXCEPT ![c] =
           Done([r EXCEPT !.store_ops = IF db THEN 1 ELSE 0], resp)]
  /\ UNCHANGED <<db, env, vendor, product, nextId, ser>>

\* seed_demo, line 126 to 129: the handle is checked, the vendors are counted.
seed_demo_count_vendors(c) ==
  /\ req[c].pc = "idle"
  /\ LET r == Call("seed_demo", EmptyDict, EmptyDict)
     IN  req' = [req EXCEPT ![c] =
           IF ~db
           THEN Done(r, [status |-> "error", message |-> "Database not configured"])
           ELSE Op(r, "l130", "vendors_count", count_documents(vendor, EmptyDict))]
  /\ UNCHANGED <<db, env, vendor, product, nextId, ser>>

\* The statement seed_demo goes to once vendors are dealt with.
SeedAfterVendors(products_count) ==
  IF SeedWanted(products_count) THEN "l142" ELSE "l153"

\* line 130: the products are counted.
seed_demo_count_products(c) ==
  /\ req[c].op = "seed_demo" /\ req[c].pc = "l130"
  /\ LET n == count_documents(product, EmptyDict)
     IN  req' = [req EXCEPT ![c] =
           Op(@, IF SeedWanted(@.loc["vendors_count"]) THEN "l139" ELSE SeedAfterVendors(n),
              "products_count", n)]
  /\ UNCHANGED <<db, env, vendor, product, nextId, ser>>

\* line 132 to 139: the demo vendors are inserted.
seed_demo_insert_vendors(c) ==
  /\ req[c].op = "seed_demo" /\ req[c].pc = "l139"
  /\ vendor' = insert_many(vendor, SeedVendors, nextId)
  /\ nextId' = nextId + Len(SeedVendors)
  /\ req' = [req EXCEPT ![c] =
       [req[c] EXCEPT !.pc = SeedAfterVendors(req[c].loc["products_count"]),
                      !.store_ops = @ + 1]]
  /\ UNCHANGED <<db, env, product, ser>>

\* line 141 to 143: the vendors are read for their identifiers.
seed_demo_find_vendors(c) ==
  /\ req[c].op = "seed_demo" /\ req[c].pc = "l142"
  /\ LET vendors_list == Select(vendor, EmptyDict)
     IN  req' = [req EXCEPT ![c] =
           Op(@, "l151", "v_ids", [i \in 1..Len(vendors_list) |-> vendors_list[i]["_id"]])]
  /\ UNCHANGED <<db, env, vendor, product, nextId, ser>>

\* line 144 to 151: the demo products are inserted.
seed_demo_insert_products(c) ==
  /\ req[c].op = "seed_demo" /\ req[c].pc = "l151"
  /\ product' = insert_many(product, SeedProducts(req[c].loc["v_ids"]), nextId)
  /\ nextId' = nextId + Len(SeedProducts(<<>>))
  /\ req' = [req EXCEPT ![c] = [req[c] EXCEPT !.pc = "l153", !.store_ops = @ + 1]]
  /\ UNCHANGED <<db, env, vendor, ser>>

\* line 153, first count.
seed_demo_recount_vendors(c) ==
  /\ req[c].op = "seed_demo" /\ req[c].pc = "l153"
  /\ req' = [req EXCEPT ![c] =
       Op(@, "l153b", "vendors", count_documents(vendor, EmptyDict))]
  /\ UNCHANGED <<db, env, vendor, product, nextId, ser>>

\* line 153, second count, and the return.
seed_demo_return(c) ==
  /\ req[c].op = "seed_demo" /\ req[c].pc = "l153b"
  /\ LET r == Op(req[c], "l153b", "products", count_documents(product, EmptyDict))
     IN  req' = [req EXCEPT ![c] =
           Done(r, [status |-> "ok", vendors |-> r.loc["vendors"],
                    products |-> r.loc["products"]])]
  /\ UNCHANGED <<db, env, vendor, product, nextId, ser>>

\* list_products, line 169 to 190: the filter is built, the matches counted.
list_products_count(c, Queries) ==
  /\ req[c].pc = "idle"
  /\ \E q \in Queries :
       LET a == ProductArgs(q)
           r == Call("list_products", q, a)
           filter_q == BuildProductFilter(a)
       IN  req' = [req EXCEPT ![c] =
             IF ~db
             THEN Done(r, EmptyEnvelope(a.page))
             ELSE Op([r EXCEPT !.loc = Put(@, "filter_q", filter_q)],
                     "l193", "total", count_documents(product, filter_q))]
  /\ UNCHANGED <<db, env, vendor, product, nextId, ser>>

\* line 191 to 198: the page is fetched and the envelope returned.
list_products_find(c) ==
  /\ req[c].op = "list_products" /\ req[c].pc = "l193"
  /\ LET a == req[c].args
         skip == Skip(a.page, a.limit)
         items == serialize_all(find(product, req[c].loc["filter_q"], skip, a.limit))
         pages == Pages(req[c].loc["total"], a.limit)
     IN  req' = [req EXCEPT ![c] =
           Done(Op(@, "l193", "skip", skip),
                Envelope(items, a.page, pages, req[c].loc["total"]))]
  /\ UNCHANGED <<db, env, vendor, product, nextId, ser>>

list_categories(c) ==
  /\ req[c].pc = "idle"
  /\ LET r == Call("list_categories", EmptyDict, EmptyDict)
     IN  req' = [req EXCEPT ![c] =
           IF ~db
           THEN Done(r, <<>>)
           ELSE LET cats == distinct(product, "category")
                IN  Done([r EXCEPT !.store_ops = 1],
                         sorted({x \in cats : isinstance_str(x)}))]
  /\ UNCHANGED <<db, env, vendor, product, nextId, ser>>

\* list_vendors, line 218 to 225.
list_vendors_count(c, Queries) ==
  /\ req[c].pc = "idle"
  /\ \E q \in Queries :
       LET a == VendorArgs(q)
           r == Call("list_vendors", q, a)
           filter_q == BuildVendorFilter(a)
       IN  req' = [req EXCEPT ![c] =
             IF ~db
             THEN Done(r, EmptyEnvelope(a.page))
             ELSE Op([r EXCEPT !.loc = Put(@, "filter_q", filter_q)],
                     "l228", "total", count_documents(vendor, filter_q))]
  /\ UNCHANGED <<db, env, vendor, product, nextId, ser>>

\* line 226 to 233.
list_vendors_find(c) ==
  /\ req[c].op = "list_vendors" /\ req[c].pc = "l228"
  /\ LET a == req[c].args
         skip == Skip(a.page, a.limit)
         items == serialize_all(find(vendor, req[c].loc["filter_q"], skip, a.limit))
         pages == Pages(req[c].loc["total"], a.limit)
     IN  req' = [req EXCEPT ![c] =
           Done(Op(@, "l228", "skip", skip),
                Envelope(items, a.page, pages, req[c].loc["total"]))]
  /\ UNCHANGED <<db, env, vendor, product, nextId, ser>>

\* The response has gone out; the client may send its next request.
Respond(c) ==
  /\ req[c].pc = "done"
  /\ req' = [req EXCEPT ![c] = Idle]
  /\ UNCHANGED <<db, env, vendor, product, nextId, ser>>

-----------------------------------------------------------------------------
(* The states before the first request, and what the clients send. *)

\* Sequences over S of length at most n.
SeqsUpTo(S, n) == UNION { [1..k -> S] : k \in 0..n }

\* A vendor stored before the first request (schemas.Vendor).
InitVendor(i, verified) ==
  [_id |-> ObjectId(i), name |-> "Corner Shop", bio |-> "", verified |-> Bool(verified),
   rating |-> 45, logo |-> "", categories |-> <<>>, location |-> ""]

\* A product stored before the first request (schemas.Product).
InitProduct(i, shape) ==
  [_id |-> ObjectId(i), title |-> Str(<<"G","i","f","t"," ","C","a","r","d">>), description |-> None,
   price |-> shape.price, category |-> shape.category, in_stock |-> shape.in_stock,
   images |-> <<>>, vendor_id |-> None]

Electronics == Str(<<"E","l","e","c","t","r","o","n","i","c","s">>)
Accessories == Str(<<"A","c","c","e","s","s","o","r","i","e","s">>)

InitProductShapes ==
  [category : {Str(<<>>), Electronics}, price : {Num(0), Num(6000)},
   in_stock : {Bool(TRUE), Bool(FALSE)}]

InitVendorLists ==
  { [i \in DOMAIN f |-> InitVendor(i, f[i])] : f \in SeqsUpTo(BOOLEAN, MaxInitVendors) }

InitProductLists(first, Shapes) ==
  { [i \in DOMAIN f |-> InitProduct(first + i - 1, f[i])] : f \in SeqsUpTo(Shapes, MaxInitProducts) }

\* The environment the database module found: with both variables set the
\* handle is configured.
EnvOf(handle) ==
  IF handle THEN {{"DATABASE_URL", "DATABASE_NAME"}}
  ELSE SUBSET {"DATABASE_URL", "DATABASE_NAME"} \ {{"DATABASE_URL", "DATABASE_NAME"}}

OptNum(n) == {None} \cup { Num(i) : i \in 1..n }

\* GET /api/vendors?verified&page&limit
VendorQueries ==
  [verified : {None, Bool(TRUE), Bool(FALSE)}, page : OptNum(MaxPage), limit : OptNum(MaxLimit)]

\* GET /api/products with page and limit, and at most a category.
PageQueries ==
  [page : OptNum(MaxPage), limit : OptNum(MaxLimit), category : {None, Electronics},
   q : {None}, min_price : {None}, max_price : {None}, in_stock : {None}]

\* The search texts: every text of at most MaxQLen characters over "s" and ".".
SearchTexts == { Str(s) : s \in SeqsUpTo({"s", "."}, MaxQLen) }

\* GET /api/products with every combination of the filter parameters.
FilterQueries ==
  [page : {None}, limit : {None}, category : {None, Str(<<>>), Electronics, Accessories},
   q : {None} \cup SearchTexts,
   min_price : {None, Num(0), Num(5000)}, max_price : {None, Num(0), Num(5000)},
   in_stock : {None, Bool(TRUE), Bool(FALSE)}]

\* The documents handed to serialize_doc: None, {}, and every choice of
\* _id, vendor_id, id and one more field.
\* The key is not in the dict.
Missing == [t |-> "missing"]
SerIds == { ObjectId(i) : i \in 1..MaxSerId }
SerDict(id_, vendor_id, id, name) ==
  LET d1 == IF id_ = Missing THEN EmptyDict ELSE Put(EmptyDict, "_id", id_)
      d2 == IF vendor_id = Missing THEN d1 ELSE Put(d1, "vendor_id", vendor_id)
      d3 == IF id = Missing THEN d2 ELSE Put(d2, "id", id)
  IN  IF name = Missing THEN d3 ELSE Put(d3, "name", name)
SerDocs ==
  {None} \cup
  { SerDict(a, b, c, d) :
      a \in {Missing, Str(<<"a", "1">>)} \cup SerIds,
      b \in {Missing, None, Str(<<"1">>)} \cup SerIds,
      c \in {Missing, Str(<<"x">>)},
      d \in {Missing, Str(<<"n">>)} }

NoSer == [doc |-> None, out |-> <<>>]

InitProgram(ProductShapes) ==
  /\ db \in BOOLEAN
  /\ env \in EnvOf(db)
  /\ vendor \in (IF db THEN InitVendorLists ELSE {<<>>})
  /\ product \in (IF db THEN InitProductLists(Len(vendor) + 1, ProductShapes) ELSE {<<>>})
  /\ nextId = Len(vendor) + Len(product) + 1
  /\ req = [c \in Clients |-> Idle]
  /\ ser = NoSer

\* One step of client c's request.
Handle(c, ProductQueries) ==
  \/ read_root(c)
  \/ test_database(c)
  \/ seed_demo_count_vendors(c)
  \/ seed_demo_count_products(c)
  \/ seed_demo_insert_vendors(c)
  \/ seed_demo_find_vendors(c)
  \/ seed_demo_insert_products(c)
  \/ seed_demo_recount_vendors(c)
  \/ seed_demo_return(c)
  \/ list_products_count(c, ProductQueries)
  \/ list_products_find(c)
  \/ list_categories(c)
  \/ list_vendors_count(c, VendorQueries)
  \/ list_vendors_find(c)
  \/ Respond(c)

(* Requests served concurrently: the steps of the clients interleave. *)
Init == InitProgram({[category |-> Electronics, price |-> Num(6000), in_stock |-> Bool(FALSE)]})
Next == \E c \in Clients : Handle(c, PageQueries)
Spec == Init /\ [][Next]_vars

(* Requests served one after the other: a request runs from its first    *)
(* statement to its return before another starts.                         *)
NoneRunning(c) == \A o \in Clients \ {c} : req[o].pc \in {"idle", "done"}
NextSeq ==
  \E c \in Clients :
     \/ NoneRunning(c) /\ read_root(c)
     \/ NoneRunning(c) /\ test_database(c)
     \/ NoneRunning(c) /\ seed_demo_count_vendors(c)
     \/ NoneRunning(c) /\ seed_demo_count_products(c)
     \/ NoneRunning(c) /\ seed_demo_insert_vendors(c)
     \/ NoneRunning(c) /\ seed_demo_find_vendors(c)
     \/ NoneRunning(c) /\ seed_demo_insert_products(c)
     \/ NoneRunning(c) /\ seed_demo_recount_vendors(c)
     \/ NoneRunning(c) /\ seed_demo_return(c)
     \/ NoneRunning(c) /\ list_products_count(c, PageQueries)
     \/ NoneRunning(c) /\ list_products_find(c)
     \/ NoneRunning(c) /\ list_categories(c)
     \/ NoneRunning(c) /\ list_vendors_count(c, VendorQueries)
     \/ NoneRunning(c) /\ list_vendors_find(c)
     \/ NoneRunning(c) /\ Respond(c)
SpecSeq == Init /\ [][NextSeq]_vars

(* One client, every combination of the filter parameters of list_products. *)
InitFilter == InitProgram(InitProductShapes)
NextFilter == Handle(1, FilterQueries)
SpecFilter == InitFilter /\ [][NextFilter]_vars

(* serialize_doc applied to a document, and again to its result. *)
InitSerialize ==
  /\ db = FALSE /\ env = {} /\ vendor = <<>> /\ product = <<>> /\ nextId = 1
  /\ req = [c \in Clients |-> Idle]
  /\ ser \in { [doc |-> d, out |-> <<>>] : d \in SerDocs }
Serialize ==
  /\ Len(ser.out) < 2
  /\ ser' = [ser EXCEPT !.out =
       Append(@, serialize_doc(IF @ = <<>> THEN ser.doc ELSE @[Len(@)]))]
  /\ UNCHANGED <<db, env, vendor, product, nextId, req>>
NextSerialize == Serialize
SpecSerialize == InitSerialize /\ [][NextSerialize]_vars

-----------------------------------------------------------------------------
(* Properties *)

Finished(c, op) == req[c].pc = "done" /\ req[c].op = op
IsList(c) == Finished(c, "list_products") \/ Finished(c, "list_vendors")
\* The collection a list request reads.
Collection(c) == IF req[c].op = "list_vendors" THEN vendor ELSE product
Min(a, b) == IF a < b THEN a ELSE b
Max(a, b) == IF a < b THEN b ELSE a
RequestedPage(c) == Default(req[c].query.page, Num(1)).n
SeedOk(c) == Finished(c, "seed_demo") /\ req[c].resp.status = "ok"
\* Client c's request is past the statement after which pc is in Past, and
\* had counted the collection empty.
InsertedOnEmpty(c, Past, count) ==
  /\ req[c].op = "seed_demo" /\ req[c].pc \in Past
  /\ Has(req[c].loc, count) /\ req[c].loc[count] = 0
\* Client c's request returns in this step.
Returns(c) == req[c].pc # "done" /\ req'[c].pc = "done"

\* C1: with requests served one after the other, two seed_demo calls return
\* the same {vendors, products} counts, which are the sizes of the
\* collections: the second call has inserted nothing.
SeedTwiceSameCounts ==
  \A c1 \in Clients : \A c2 \in Clients \ {c1} :
     SeedOk(c1) /\ SeedOk(c2) =>
        /\ req[c1].resp = req[c2].resp
        /\ req[c1].resp.vendors = Len(vendor)
        /\ req[c1].resp.products = Len(product)

\* Two seed_demo calls have returned, the first of them on empty collections.
SeedTwiceWitness ==
  /\ SeedOk(1) /\ SeedOk(2)
  /\ req[1].loc["vendors_count"] = 0 /\ req[1].loc["products_count"] = 0
  /\ req[2].loc["vendors_count"] = Len(SeedVendors)
  /\ req[2].resp = [status |-> "ok", vendors |-> 4, products |-> 5]

PastVendorInsert == {"l142", "l151", "l153", "l153b", "done"}
PastProductInsert == {"l153", "l153b", "done"}

\* C2: two seed_demo calls that both counted a collection empty both insert
\* into it: once both are past their insert the collection holds the demo
\* data twice (8 vendors, 10 products).
SeedRaceDuplicates ==
  \A c1 \in Clients : \A c2 \in Clients \ {c1} :
     /\ ( /\ InsertedOnEmpty(c1, PastVendorInsert, "vendors_count")
          /\ InsertedOnEmpty(c2, PastVendorInsert, "vendors_count") )
        => Len(vendor) >= 2 * Len(SeedVendors)
     /\ ( /\ InsertedOnEmpty(c1, PastProductInsert, "products_count")
          /\ InsertedOnEmpty(c2, PastProductInsert, "products_count") )
        => Len(product) >= 2 * Len(SeedProducts(<<>>))

\* Both calls counted 0 and 0, and the collections hold 8 and 10 documents.
SeedRaceWitness ==
  /\ SeedOk(1) /\ SeedOk(2)
  /\ \A c \in {1, 2} : req[c].loc["vendors_count"] = 0 /\ req[c].loc["products_count"] = 0
  /\ Len(vendor) = 8 /\ Len(product) = 10
  /\ \E i \in 1..4 : Del(vendor[i], "_id") = Del(vendor[i + 4], "_id")

IsEmptyEnvelope(r, page) ==
  /\ DOMAIN r = {"items", "page", "pages", "total"}
  /\ r.items = <<>> /\ r.page = page /\ r.pages = 0 /\ r.total = 0

\* C3 as claimed: without a store handle list_products, list_vendors and
\* list_categories all return the empty envelope, seed_demo an error status,
\* and none touches the store.
UnavailableAllEnvelopes ==
  ~db => \A c \in Clients :
     /\ req[c].store_ops = 0
     /\ IsList(c) => IsEmptyEnvelope(req[c].resp, RequestedPage(c))
     /\ Finished(c, "list_categories") =>
          /\ DOMAIN req[c].resp = {"items", "page", "pages", "total"}
          /\ req[c].resp.items = <<>> /\ req[c].resp.pages = 0 /\ req[c].resp.total = 0
     /\ Finished(c, "seed_demo") => req[c].resp.status = "error"

\* C3 as amended: without a store handle list_products and list_vendors
\* return {items: [], page: requested page, pages: 0, total: 0},
\* list_categories returns the empty list [], seed_demo returns status
\* "error", and none of them performs a store operation.
UnavailableNeutral ==
  ~db => \A c \in Clients :
     /\ req[c].store_ops = 0
     /\ vendor = <<>> /\ product = <<>>
     /\ IsList(c) => IsEmptyEnvelope(req[c].resp, RequestedPage(c))
     /\ Finished(c, "list_categories") => req[c].resp = <<>>
     /\ Finished(c, "seed_demo") =>
          req[c].resp = [status |-> "error", message |-> "Database not configured"]

\* Without a handle: page 2 of the vendors was asked for, and the categories.
UnavailableWitness ==
  /\ ~db
  /\ Finished(1, "list_vendors") /\ req[1].query.page = Num(2)
  /\ req[1].resp = [items |-> <<>>, page |-> 2, pages |-> 0, total |-> 0]
  /\ Finished(2, "list_categories") /\ req[2].resp = <<>>

\* The criteria the request supplies, each applied on its own.
Satisfies(doc, q) ==
  /\ q.category # None => doc["category"] = q.category
  /\ q.q # None => SubstringCI(q.q.v, doc["title"]) \/ SubstringCI(q.q.v, doc["description"])
  /\ q.min_price # None => doc["price"].n >= q.min_price.n
  /\ q.max_price # None => doc["price"].n <= q.max_price.n
  /\ q.in_stock # None => doc["in_stock"] = q.in_stock

\* C4: a product is returned by list_products (it matches the built filter)
\* if and only if it satisfies every supplied criterion, and total counts
\* those products.
FilterMatchesSuppliedCriteria ==
  \A c \in Clients :
     Finished(c, "list_products") /\ db =>
        /\ \A i \in 1..Len(product) :
              Matches(product[i], req[c].loc["filter_q"]) <=> Satisfies(product[i], req[c].query)
        /\ req[c].resp.total =
              Cardinality({ i \in 1..Len(product) : Satisfies(product[i], req[c].query) })

\* C5: skip = (page - 1) * limit, pages = ceil(total / limit), and the page
\* returned is the page requested.
PaginationArithmetic ==
  \A c \in Clients :
     IsList(c) /\ db =>
        LET a == req[c].args
            r == req[c].resp
        IN  /\ a.page >= 1 /\ a.limit >= 1 /\ a.limit <= 100 /\ r.total >= 0
            /\ req[c].loc["skip"] = (a.page - 1) * a.limit
            /\ r.page = RequestedPage(c)
            /\ (r.pages = 0) <=> (r.total = 0)
            /\ r.total > 0 => (r.pages - 1) * a.limit < r.total /\ r.total <= r.pages * a.limit

\* Page 2 of five products, two to the page: three pages.
PaginationWitness ==
  \E c \in Clients :
     /\ Finished(c, "list_products")
     /\ req[c].query.page = Num(2) /\ req[c].query.limit = Num(2)
     /\ req[c].resp.total = 5 /\ req[c].resp.pages = 3 /\ req[c].loc["skip"] = 2

\* C6: serialize_doc applied to its own result changes nothing.
SerializeIdempotent ==
  Len(ser.out) = 2 => ser.out[2] = ser.out[1]

\* A document with _id and vendor_id of identifier type and an id of its own
\* has been serialised twice.
SerializeWitness ==
  /\ Len(ser.out) = 2
  /\ ser.doc # None /\ ser.doc # EmptyDict
  /\ isinstance_ObjectId(Get(ser.doc, "_id"))
  /\ isinstance_ObjectId(Get(ser.doc, "vendor_id"))
  /\ Has(ser.doc, "id") /\ ser.doc["id"] # str(ser.doc["_id"])
  /\ ser.out[1] # ser.doc
  /\ ser.out[1]["id"] = str(ser.doc["_id"]) /\ ~Has(ser.out[1], "_id")

\* The items of a vendor listing are all of the kind asked for, and total
\* counts the vendors of that kind in coll.
VendorsOfOneKind(r, coll) ==
  LET want == IF r.query.verified = None THEN Bool(TRUE) ELSE r.query.verified
  IN  /\ \A i \in 1..Len(r.resp.items) : r.resp.items[i]["verified"] = want
      /\ r.resp.total = Cardinality({ i \in 1..Len(coll) : coll[i]["verified"] = want })
\* C7: with requests served one after the other, list_vendors without verified returns only vendors with verified =
\* true and total counts only those; with verified = false only vendors with
\* verified = false; never both kinds.
VendorsNeverMixed ==
  [][ \A c \in Clients :
        Returns(c) /\ req'[c].op = "list_vendors" /\ db => VendorsOfOneKind(req'[c], vendor') ]_vars

\* The store holds a verified and an unverified vendor, and a request
\* without verified got the verified one only.
VendorsWitness ==
  \E c \in Clients :
     /\ Finished(c, "list_vendors") /\ req[c].query.verified = None
     /\ \E i \in 1..Len(vendor) : vendor[i]["verified"] = Bool(FALSE)
     /\ req[c].resp.total = 1 /\ Len(req[c].resp.items) = 1 /\ Len(vendor) = 2

\* s is a prefix of t.
IsPrefix(s, t) == Len(s) <= Len(t) /\ SubSeq(t, 1, Len(s)) = s

\* C8: the collections only grow, every stored document stays as it is, and
\* only an insert of seed_demo changes a collection.
StoreOnlyGrows ==
  [][ /\ IsPrefix(vendor, vendor') /\ IsPrefix(product, product')
      /\ (vendor' # vendor \/ product' # product) =>
           \E c \in Clients :
              /\ req[c].op = "seed_demo" /\ req[c].pc \in {"l139", "l151"}
              /\ req'[c].pc # req[c].pc
              /\ \A o \in Clients \ {c} : req'[o] = req[o] ]_vars

\* Two seed_demo calls have inserted vendors, the second behind the first's,
\* and the read handlers have run since.
StoreGrowsWitness ==
  /\ Len(product) = Len(SeedProducts(<<>>)) /\ Len(vendor) = 2 * Len(SeedVendors)
  /\ Finished(1, "list_categories") /\ Len(req[1].resp) = 5
  /\ Finished(2, "test_database")

\* The envelope of request rq holds one page of the matches in coll.
ItemsOfThePage(rq, coll) ==
  LET a == rq.args
      r == rq.resp
      skip == (a.page - 1) * a.limit
      m == Select(coll, rq.loc["filter_q"])
  IN  /\ DOMAIN r = {"items", "page", "pages", "total"}
      /\ r.total = Len(m)
      /\ Len(r.items) = Min(a.limit, Max(0, r.total - skip))
      /\ \A i \in 1..Len(r.items) : r.items[i] = serialize_doc(m[skip + i])
      /\ a.page > r.pages => r.items = <<>>
\* C9: with the store unchanged during the request, items are the matching
\* documents at offsets skip .. skip + limit - 1, min(limit, max(0, total -
\* skip)) of them; beyond the last page items is empty.
ItemsAreThePage ==
  [][ \A c \in Clients :
        /\ Returns(c) /\ req'[c].op = "list_products" /\ db => ItemsOfThePage(req'[c], product')
        /\ Returns(c) /\ req'[c].op = "list_vendors" /\ db => ItemsOfThePage(req'[c], vendor') ]_vars

\* One request got the second page, another asked beyond the last page.
ItemsWitness ==
  /\ Finished(1, "list_products") /\ req[1].args.page = 2 /\ req[1].args.limit = 2
  /\ req[1].resp.total = 5 /\ Len(req[1].resp.items) = 2
  /\ req[1].resp.items[1]["id"] = str(product[3]["_id"])
  /\ Finished(2, "list_vendors") /\ req[2].args.page = 2
  /\ req[2].resp.pages = 1 /\ req[2].resp.total = 4 /\ req[2].resp.items = <<>>

\* C10 as claimed: items never number more than max(0, total - skip), also
\* with a seed_demo running beside the list request.
EnvelopeConsistent ==
  \A c \in Clients :
     IsList(c) /\ db =>
        Len(req[c].resp.items) <= Max(0, req[c].resp.total - req[c].loc["skip"])

\* C10 as amended: with n the number of matching documents in the store,
\* total <= n, and items number at least min(limit, max(0, total - skip)) and
\* at most min(limit, max(0, n - skip)).
EnvelopeWithinStore ==
  \A c \in Clients :
     IsList(c) /\ db =>
        LET a == req[c].args
            r == req[c].resp
            skip == req[c].loc["skip"]
            n == count_documents(Collection(c), req[c].loc["filter_q"])
        IN  /\ r.total <= n
            /\ Len(r.items) >= Min(a.limit, Max(0, r.total - skip))
            /\ Len(r.items) <= Min(a.limit, Max(0, n - skip))

\* A list request counted nothing and then found the documents a seed_demo
\* had inserted in between.
EnvelopeRaceWitness ==
  \E c \in Clients :
     /\ IsList(c) /\ db
     /\ req[c].resp.total = 0 /\ req[c].resp.pages = 0
     /\ req[c].resp.items # <<>>

====
